---- MODULE Spec2Model ----
(***************************************************************************)
(* Model of the v4n1ty vanity address generator: the VanityGenerator       *)
(* coordinator (generator.ts), the worker script and worker handles        *)
(* (worker.ts) and the configuration validation (utils.ts).                *)
(*                                                                         *)
(* Strings are sequences of one-character strings.  An address is the      *)
(* two-character prefix "0x" followed by its 40-character body.            *)
(***************************************************************************)
EXTENDS Integers, Sequences, FiniteSets, TLC

\* ------------------------------------------------------------------ bounds
\* worker handles created in one behaviour
MaxWorkers == 2
\* loop segments one worker executes (see WorkerIterate)
MaxSteps == 2
\* reporting ticks in one behaviour
MaxTicks == 1
\* failures of the script or of key generation in one behaviour
MaxFaults == 1
\* loop segments one worker executes when it is the only worker of its run
SingleSteps == 3

\* ------------------------------------------------------- program constants
\* worker script: const PROGRESS_INTERVAL = 1000
PROGRESS_INTERVAL == 1000
\* utils.ts: 40 characters in an address without 0x
ADDRESS_LENGTH == 40
\* address.slice(2): length of the '0x' prefix
PREFIX_LENGTH == 2

\* ------------------------------------------------------------------ strings
Fill(c, n) == [i \in 1..n |-> c]

HexChars ==
  {"0", "1", "2", "3", "4", "5", "6", "7", "8", "9",
   "a", "b", "c", "d", "e", "f", "A", "B", "C", "D", "E", "F"}

\* String.prototype.toLowerCase on one character
toLowerCaseChar(c) ==
  CASE c = "A" -> "a" [] c = "B" -> "b" [] c = "C" -> "c"
    [] c = "D" -> "d" [] c = "E" -> "e" [] c = "F" -> "f"
    [] c = "X" -> "x" [] c = "Z" -> "z" [] c = "G" -> "g"
    [] OTHER -> c

\* toLowerCase that leaves the string as it is
toLowerCase_asIs(s) == s

toLowerCase(s) == [i \in 1..Len(s) |-> toLowerCaseChar(s[i])]

Min(a, b) == IF a < b THEN a ELSE b
Max(a, b) == IF a > b THEN a ELSE b

\* slice that takes the end index for the last index of the slice
slice_inclusive(s, start, end) ==
  LET n    == Len(s)
      from == IF start < 0 THEN Max(n + start, 0) ELSE Min(start, n)
      to   == IF end < 0 THEN Max(n + end + 1, 0) ELSE Min(end + 1, n)
  IN  IF from >= to THEN << >> ELSE SubSeq(s, from + 1, to)

\* String.prototype.slice(start, end) for integer arguments: negative
\* indices count from the end, both are clamped to 0..length
slice(s, start, end) ==
  LET n    == Len(s)
      from == IF start < 0 THEN Max(n + start, 0) ELSE Min(start, n)
      to   == IF end < 0 THEN Max(n + end, 0) ELSE Min(end, n)
  IN  IF from >= to THEN << >> ELSE SubSeq(s, from + 1, to)

\* endsWith that compares the start of the string
endsWith_atStart(s, t) == Len(t) <= Len(s) /\ SubSeq(s, 1, Len(t)) = t

\* includes that finds the target at the start only
includes_atStart(s, t) == Len(t) <= Len(s) /\ SubSeq(s, 1, Len(t)) = t

startsWith(s, t) == Len(t) <= Len(s) /\ SubSeq(s, 1, Len(t)) = t
endsWith(s, t) == Len(t) <= Len(s) /\ SubSeq(s, Len(s) - Len(t) + 1, Len(s)) = t
includes(s, t) ==
  \E i \in 0..(Len(s) - Len(t)) : SubSeq(s, i + 1, i + Len(t)) = t

\* ------------------------------------------------------------ configuration
\* an optional number is << >> (undefined) or <<p>>
Undefined == << >>

\* utils.ts validateTarget: /^[0-9a-fA-F]+$/.test(target)
validateTarget(target) ==
  Len(target) >= 1 /\ \A i \in 1..Len(target) : target[i] \in HexChars

\* validatePosition with the target length left out of the upper limit
validatePosition_noLength(position, targetLength) ==
  position >= 0 /\ position <= ADDRESS_LENGTH

\* utils.ts validatePosition
validatePosition(position, targetLength) ==
  position >= 0 /\ position <= (ADDRESS_LENGTH - targetLength)

\* utils.ts validateConfig: the list of error messages, in the order pushed
validateConfig(config) ==
  (IF Len(config.target) = 0
     THEN <<"Target string cannot be empty">> ELSE << >>)
  \o (IF ~validateTarget(config.target)
        THEN <<"Target must contain only hexadecimal characters">> ELSE << >>)
  \o (IF Len(config.target) > ADDRESS_LENGTH
        THEN <<"Target cannot be longer than 40 characters">> ELSE << >>)
  \o (IF config.searchMode = "position"
        THEN IF config.position = Undefined
               THEN <<"Position must be specified for position search mode">>
               ELSE IF ~validatePosition(config.position[1], Len(config.target))
                      THEN <<"Position must be between 0 and 40 - length">>
                      ELSE << >>
        ELSE << >>)
  \o (IF config.numWorkers < 1
        THEN <<"Number of workers must be at least 1">> ELSE << >>)

\* ------------------------------------------------------------------ matcher
\* result of a call that may throw: "true", "false" or "throw"
matchesTarget(address, target, mode, caseSensitive, position) ==
  LET addr            == slice(address, PREFIX_LENGTH, Len(address))
      processedAddr   == IF caseSensitive THEN addr ELSE toLowerCase(addr)
      processedTarget == IF caseSensitive THEN target ELSE toLowerCase(target)
      B(b)            == IF b THEN "true" ELSE "false"
  IN  CASE mode = "anywhere" -> B(includes(processedAddr, processedTarget))
        [] mode = "start"    -> B(startsWith(processedAddr, processedTarget))
        [] mode = "end"      -> B(endsWith(processedAddr, processedTarget))
        [] mode = "position" ->
             IF position = Undefined THEN "false"
             ELSE B(slice(processedAddr, position[1],
                          position[1] + Len(processedTarget)) = processedTarget)
        [] OTHER -> "throw"

\* the script's matcher whose switch has no default case: an unknown mode is
\* no match
workerMatchesTarget_noDefault(address, target, mode, caseSensitive, position) ==
  LET addr            == slice(address, PREFIX_LENGTH, Len(address))
      processedAddr   == IF caseSensitive THEN addr ELSE toLowerCase(addr)
      processedTarget == IF caseSensitive THEN target ELSE toLowerCase(target)
      B(b)            == IF b THEN "true" ELSE "false"
  IN  CASE mode = "anywhere" -> B(includes(processedAddr, processedTarget))
        [] mode = "start"    -> B(startsWith(processedAddr, processedTarget))
        [] mode = "end"      -> B(endsWith(processedAddr, processedTarget))
        [] mode = "position" ->
             IF position = Undefined THEN "false"
             ELSE B(slice(processedAddr, position[1],
                          position[1] + Len(processedTarget)) = processedTarget)
        [] OTHER -> "false"

\* the script's matcher that compares the lower-cased address with the
\* target as it is
workerMatchesTarget_rawTarget(address, target, mode, caseSensitive, position) ==
  LET addr            == slice(address, PREFIX_LENGTH, Len(address))
      processedAddr   == IF caseSensitive THEN addr ELSE toLowerCase(addr)
      processedTarget == target
      B(b)            == IF b THEN "true" ELSE "false"
  IN  CASE mode = "anywhere" -> B(includes(processedAddr, processedTarget))
        [] mode = "start"    -> B(startsWith(processedAddr, processedTarget))
        [] mode = "end"      -> B(endsWith(processedAddr, processedTarget))
        [] mode = "position" ->
             IF position = Undefined THEN "false"
             ELSE B(slice(processedAddr, position[1],
                          position[1] + Len(processedTarget)) = processedTarget)
        [] OTHER -> "throw"

\* worker.ts createWorkerScript: the copy of matchesTarget in the script the
\* worker runs; it is the one the search loop calls
workerMatchesTarget(address, target, mode, caseSensitive, position) ==
  LET addr            == slice(address, PREFIX_LENGTH, Len(address))
      processedAddr   == IF caseSensitive THEN addr ELSE toLowerCase(addr)
      processedTarget == IF caseSensitive THEN target ELSE toLowerCase(target)
      B(b)            == IF b THEN "true" ELSE "false"
  IN  CASE mode = "anywhere" -> B(includes(processedAddr, processedTarget))
        [] mode = "start"    -> B(startsWith(processedAddr, processedTarget))
        [] mode = "end"      -> B(endsWith(processedAddr, processedTarget))
        [] mode = "position" ->
             IF position = Undefined THEN "false"
             ELSE B(slice(processedAddr, position[1],
                          position[1] + Len(processedTarget)) = processedTarget)
        [] OTHER -> "throw"


\* ------------------------------------------------------------------- inputs
Config(target, mode, position, caseSensitive, numWorkers) ==
  [target |-> target, searchMode |-> mode, position |-> position,
   caseSensitive |-> caseSensitive, numWorkers |-> numWorkers]

\* configurations the coordinator is constructed with in Spec
RunConfigs ==
  { Config(<<"a", "b">>, "start", Undefined, FALSE, 1),
    Config(<<"a", "b">>, "start", Undefined, FALSE, 2),
    Config(<<"a", "b">>, "bogus", Undefined, FALSE, 1),
    Config(<<"z", "z">>, "start", Undefined, FALSE, 1),
    Config(<<"a", "b">>, "position", Undefined, FALSE, 2),
    Config(<<"a", "b">>, "start", Undefined, FALSE, 0) }

Workers == 1..MaxWorkers

\* candidate addresses the key generator of a worker can produce
AddrMiss == <<"0", "x">> \o Fill("f", ADDRESS_LENGTH)
AddrHit  == <<"0", "x", "A", "b", "3", "4">> \o Fill("0", ADDRESS_LENGTH - 4)
Addresses == {AddrMiss, AddrHit}

\* lengths of the runs of consecutive non-matching candidates a worker draws
MissRuns == {1, PROGRESS_INTERVAL - 1}

\* ------------------------------------------------------------------- state
VARIABLES
  constructed,         \* "none" | "ok" | "failed": the constructor's outcome
  config,              \* VanityGenerator.config
  errors,              \* validateConfig's result in the constructor
  isRunning,           \* VanityGenerator.isRunning
  totalAttempts,       \* VanityGenerator.totalAttempts
  lastUpdateAttempts,  \* VanityGenerator.lastUpdateAttempts
  workers,             \* VanityGenerator.workers: sequence of worker handles
  progressInterval,    \* VanityGenerator.progressInterval: 0 is undefined
  timers,              \* the interval timers that are active
  timerSeq,            \* handles setInterval has returned so far
  events,              \* the events emitted since the last start(), in order
  ret,                 \* the last public call made and its outcome
  wpc,                 \* per worker: none | init | loop | idle | crashed | dead
  wStopSent,           \* per worker: a stop message was posted to it
  wInbox,              \* per worker: messages posted to it, not yet handled
  wShouldStop,         \* per worker: the script's shouldStop
  wAttempts,           \* per worker: the script's attempts
  wSteps,              \* per worker: loop segments executed
  wDrawn,              \* per worker: candidates drawn by the loop
  out,                 \* per worker: events on their way to the coordinator
  nextWorker,          \* worker handles created so far
  nStarts,             \* successful start() calls so far
  nTicks,              \* reporting ticks so far
  nFaults,             \* failures so far
  recvSum,             \* history: attempt deltas received while running, this run
  foundDelivered,      \* history: Found messages delivered since the last start
  extStopped,          \* history: this run was ended by a caller's stop()
  matchArgs,           \* the arguments of a call of matchesTarget
  matchResult,         \* "none", or what the call has returned
  workerResult         \* "none", or what the script's copy returns for them

genVars == <<isRunning, totalAttempts, lastUpdateAttempts, workers,
             progressInterval, timers, timerSeq, events, ret,
             wpc, wStopSent, wInbox, wShouldStop, wAttempts, wSteps, wDrawn,
             nextWorker>>
ctorVars == <<constructed, config, errors>>
histVars == <<nStarts, nTicks, nFaults, recvSum, foundDelivered, extStopped>>
matchVars == <<matchArgs, matchResult, workerResult>>
vars == <<ctorVars, genVars, out, histVars, matchVars>>

\* the state the coordinator's methods read and write, as one record
Cur ==
  [isRunning |-> isRunning, totalAttempts |-> totalAttempts,
   lastUpdateAttempts |-> lastUpdateAttempts, workers |-> workers,
   progressInterval |-> progressInterval, timers |-> timers,
   timerSeq |-> timerSeq, events |-> events, ret |-> ret,
   wpc |-> wpc, wStopSent |-> wStopSent, wInbox |-> wInbox,
   wShouldStop |-> wShouldStop, wAttempts |-> wAttempts, wSteps |-> wSteps,
   wDrawn |-> wDrawn,
   nextWorker |-> nextWorker, config |-> config]

Commit(t) ==
  /\ isRunning' = t.isRunning
  /\ totalAttempts' = t.totalAttempts
  /\ lastUpdateAttempts' = t.lastUpdateAttempts
  /\ workers' = t.workers
  /\ progressInterval' = t.progressInterval
  /\ timers' = t.timers
  /\ timerSeq' = t.timerSeq
  /\ events' = t.events
  /\ ret' = t.ret
  /\ wpc' = t.wpc
  /\ wStopSent' = t.wStopSent
  /\ wInbox' = t.wInbox
  /\ wShouldStop' = t.wShouldStop
  /\ wAttempts' = t.wAttempts
  /\ wSteps' = t.wSteps
  /\ wDrawn' = t.wDrawn
  /\ nextWorker' = t.nextWorker

\* ---------------------------------------------------------- events, messages
Ev(type, attempts, address, privateKey, error) ==
  [type |-> type, attempts |-> attempts, address |-> address,
   privateKey |-> privateKey, error |-> error]

\* WorkerResult (types.ts): data is Undefined or <<d>>, an undefined attempts
\* is 0 and an undefined error is ""; type "onerror" stands for the event
\* that the worker's onerror callback receives
Msg(type, data, attempts, error) ==
  [type |-> type, data |-> data, attempts |-> attempts, error |-> error]

\* the data of a Found message with the attempts counter as it is, not + 1
FoundData_rawAttempts(address, privateKey, attempts) ==
  [address |-> address, privateKey |-> privateKey, attempts |-> attempts - 1]

FoundData(address, privateKey, attempts) ==
  [address |-> address, privateKey |-> privateKey, attempts |-> attempts]

emit(s, ev) == [s EXCEPT !.events = Append(@, ev)]


\* ------------------------------------------------------------ worker handles
\* worker.ts createWorker: a new Worker running the script, with the start
\* message posted to it; the handle is the worker's number
createWorker(s) ==
  LET w == s.nextWorker + 1
  IN  [s EXCEPT !.nextWorker = w,
                !.wpc[w] = "init",
                !.wInbox[w] = <<"start">>]

\* worker.ts terminateWorker, first statement: worker.postMessage(stop)
postStopMessage(s, w) ==
  [s EXCEPT !.wInbox[w] = Append(@, "stop"),
            !.wStopSent[w] = TRUE]

\* worker.ts terminateWorker, second statement: worker.terminate() ends the
\* worker's thread and discards its state and its message queue
terminate(s, w) ==
  [s EXCEPT !.wpc[w] = "dead",
            !.wInbox[w] = << >>,
            !.wShouldStop[w] = FALSE,
            !.wAttempts[w] = 0,
            !.wSteps[w] = 0,
            !.wDrawn[w] = 0]

\* worker.ts terminateWorker: post the stop message, then terminate()
terminateWorker(s, w) == terminate(postStopMessage(s, w), w)

\* ------------------------------------------------------------- coordinator
\* utils.ts calculatePerformanceStats, without its wall-clock fields
calculatePerformanceStats(total, lastAttempts) ==
  [totalAttempts |-> total, intervalAttempts |-> total - lastAttempts]

\* generator.ts createWorkers: the loop from i up to config.numWorkers
RECURSIVE createWorkersFrom(_, _)
createWorkersFrom(s, i) ==
  IF i < s.config.numWorkers
    THEN LET t == createWorker(s)
         IN  createWorkersFrom([t EXCEPT !.workers = Append(@, t.nextWorker)],
                               i + 1)
    ELSE s

\* createWorkers whose loop starts at 1: one worker too few
createWorkers_fromOne(s) == createWorkersFrom(s, 1)

createWorkers(s) == createWorkersFrom(s, 0)

\* generator.ts terminateAllWorkers
RECURSIVE terminateEach(_, _)
terminateEach(s, ws) ==
  IF ws = << >> THEN s
  ELSE terminateEach(terminateWorker(s, Head(ws)), Tail(ws))

\* terminateAllWorkers that keeps the handles in the list
terminateAllWorkers_keepList(s) == terminateEach(s, s.workers)

terminateAllWorkers(s) ==
  [terminateEach(s, s.workers) EXCEPT !.workers = << >>]

\* generator.ts startProgressUpdates: setInterval returns a fresh handle
startProgressUpdates(s) ==
  LET h == s.timerSeq + 1
  IN  [s EXCEPT !.timerSeq = h, !.timers = @ \cup {h},
                !.progressInterval = h]

\* generator.ts stopProgressUpdates
stopProgressUpdates(s) ==
  IF s.progressInterval # 0
    THEN [s EXCEPT !.timers = @ \ {s.progressInterval},
                   !.progressInterval = 0]
    ELSE s

\* start that does not reset lastUpdateAttempts
start_keepsLastUpdate(s) ==
  IF s.isRunning
    THEN [s EXCEPT !.ret = "AlreadyRunning"]
    ELSE LET s1 == [s EXCEPT !.isRunning = TRUE,
                             !.totalAttempts = 0,
                             !.ret = "ok"]
             s2 == createWorkers(s1)
             s3 == startProgressUpdates(s2)
         IN  emit(s3, Ev("started", 0, << >>, << >>, ""))

\* start without its already-running check
start_unguarded(s) ==
  LET s1 == [s EXCEPT !.isRunning = TRUE,
                      !.totalAttempts = 0,
                      !.lastUpdateAttempts = 0,
                      !.ret = "ok"]
      s2 == createWorkers(s1)
      s3 == startProgressUpdates(s2)
  IN  emit(s3, Ev("started", 0, << >>, << >>, ""))

\* generator.ts start
start(s) ==
  IF s.isRunning
    THEN [s EXCEPT !.ret = "AlreadyRunning"]
    ELSE LET s1 == [s EXCEPT !.isRunning = TRUE,
                             !.totalAttempts = 0,
                             !.lastUpdateAttempts = 0,
                             !.ret = "ok"]
             s2 == createWorkers(s1)
             s3 == startProgressUpdates(s2)
         IN  emit(s3, Ev("started", 0, << >>, << >>, ""))

\* stop that leaves the reporting timer installed
stop_keepsTimer(s) ==
  IF ~s.isRunning
    THEN s
    ELSE LET s1 == [s EXCEPT !.isRunning = FALSE]
             s2 == terminateAllWorkers(s1)
         IN  emit(s2, Ev("stopped", 0, << >>, << >>, ""))

\* stop without its not-running check
stop_unguarded(s) ==
  LET s1 == [s EXCEPT !.isRunning = FALSE]
      s2 == terminateAllWorkers(s1)
      s3 == stopProgressUpdates(s2)
  IN  emit(s3, Ev("stopped", 0, << >>, << >>, ""))

\* generator.ts stop
stop(s) ==
  IF ~s.isRunning
    THEN s
    ELSE LET s1 == [s EXCEPT !.isRunning = FALSE]
             s2 == terminateAllWorkers(s1)
             s3 == stopProgressUpdates(s2)
         IN  emit(s3, Ev("stopped", 0, << >>, << >>, ""))

\* handleFoundResult that does not add the message's attempts
handleFoundResult_uncounted(s, data) ==
  LET result == Ev("found", s.totalAttempts, data.address,
                   data.privateKey, "")
  IN  emit(stop(s), result)

\* handleFoundResult that emits found before it stops
handleFoundResult_emitFirst(s, data) ==
  LET s1     == [s EXCEPT !.totalAttempts = @ + data.attempts]
      result == Ev("found", s1.totalAttempts, data.address,
                   data.privateKey, "")
  IN  stop(emit(s1, result))

\* handleFoundResult that counts the attempts and does nothing else
handleFoundResult_countOnly(s, data) ==
  [s EXCEPT !.totalAttempts = @ + data.attempts]

\* handleFoundResult that leaves the search running
handleFoundResult_noStop(s, data) ==
  LET s1     == [s EXCEPT !.totalAttempts = @ + data.attempts]
      result == Ev("found", s1.totalAttempts, data.address,
                   data.privateKey, "")
  IN  emit(s1, result)

\* handleFoundResult that reports the Found message's own attempts
handleFoundResult_ownAttempts(s, data) ==
  LET s1     == [s EXCEPT !.totalAttempts = @ + data.attempts]
      result == Ev("found", data.attempts, data.address,
                   data.privateKey, "")
      s2     == stop(s1)
  IN  emit(s2, result)

\* generator.ts handleFoundResult
handleFoundResult(s, data) ==
  LET s1     == [s EXCEPT !.totalAttempts = @ + data.attempts]
      result == Ev("found", s1.totalAttempts, data.address,
                   data.privateKey, "")
      s2     == stop(s1)
  IN  emit(s2, result)

\* handleWorkerMessage without its not-running check
handleWorkerMessage_unguarded(s, result) ==
  CASE result.type = "found" ->
         IF result.data # Undefined
           THEN handleFoundResult(s, result.data[1]) ELSE s
    [] result.type = "progress" ->
         IF result.attempts # 0
           THEN [s EXCEPT !.totalAttempts = @ + result.attempts]
           ELSE s
    [] result.type = "error" ->
         emit(s, Ev("error", 0, << >>, << >>,
                    IF result.error # "" THEN result.error
                    ELSE "Unknown worker error"))
    [] OTHER -> s

\* handleWorkerMessage that stops the search on a worker's Error message
handleWorkerMessage_stopOnError(s, result) ==
  IF ~s.isRunning THEN s
  ELSE CASE result.type = "found" ->
              IF result.data # Undefined
                THEN handleFoundResult(s, result.data[1]) ELSE s
         [] result.type = "progress" ->
              IF result.attempts # 0
                THEN [s EXCEPT !.totalAttempts = @ + result.attempts]
                ELSE s
         [] result.type = "error" ->
              stop(emit(s, Ev("error", 0, << >>, << >>,
                              IF result.error # "" THEN result.error
                              ELSE "Unknown worker error")))
         [] OTHER -> s

\* generator.ts handleWorkerMessage
handleWorkerMessage(s, result) ==
  IF ~s.isRunning THEN s
  ELSE CASE result.type = "found" ->
              IF result.data # Undefined
                THEN handleFoundResult(s, result.data[1]) ELSE s
         [] result.type = "progress" ->
              IF result.attempts # 0
                THEN [s EXCEPT !.totalAttempts = @ + result.attempts]
                ELSE s
         [] result.type = "error" ->
              emit(s, Ev("error", 0, << >>, << >>,
                         IF result.error # "" THEN result.error
                         ELSE "Unknown worker error"))
         [] OTHER -> s

\* generator.ts handleWorkerError
handleWorkerError(s, error) ==
  emit(s, Ev("error", 0, << >>, << >>, error))

\* the interval callback that reports the total of the tick before
progressTick_previous(s) ==
  IF s.isRunning
    THEN LET stats == calculatePerformanceStats(s.lastUpdateAttempts,
                                                s.lastUpdateAttempts)
             s1    == [s EXCEPT !.lastUpdateAttempts = s.totalAttempts]
         IN  emit(s1, Ev("progress", stats.totalAttempts, << >>, << >>, ""))
    ELSE s

\* the interval callback as a per-interval counter: it zeroes totalAttempts
progressTick_resetting(s) ==
  IF s.isRunning
    THEN LET stats == calculatePerformanceStats(s.totalAttempts,
                                                s.lastUpdateAttempts)
             s1    == [s EXCEPT !.lastUpdateAttempts = 0,
                                !.totalAttempts = 0]
         IN  emit(s1, Ev("progress", stats.totalAttempts, << >>, << >>, ""))
    ELSE s

\* generator.ts startProgressUpdates: the interval callback
progressTick(s) ==
  IF s.isRunning
    THEN LET stats == calculatePerformanceStats(s.totalAttempts,
                                                s.lastUpdateAttempts)
             s1    == [s EXCEPT !.lastUpdateAttempts = s.totalAttempts]
         IN  emit(s1, Ev("progress", stats.totalAttempts, << >>, << >>, ""))
    ELSE s

\* getStats that reports the attempts since the last reporting tick as total
getStats_sinceTick(s) ==
  calculatePerformanceStats(s.totalAttempts - s.lastUpdateAttempts,
                            s.lastUpdateAttempts)

\* generator.ts isGenerating
isGenerating(s) == s.isRunning

\* generator.ts getStats
getStats(s) ==
  calculatePerformanceStats(s.totalAttempts, s.lastUpdateAttempts)


\* validateConfiguration that never fails
validateConfiguration_lenient(cfg) == "ok"

\* generator.ts validateConfiguration: "ok", or "throw" when the constructor
\* fails with the validation errors
validateConfiguration(cfg) ==
  IF Len(validateConfig(cfg)) > 0 THEN "throw" ELSE "ok"

\* -------------------------------------------------------------------- Init
MatchArgs(address, target, mode, caseSensitive, position) ==
  [address |-> address, target |-> target, mode |-> mode,
   caseSensitive |-> caseSensitive, position |-> position]

\* the coordinator and the workers before the constructor has run
Fresh ==
  /\ constructed = "none"
  /\ config = Config(<< >>, "start", Undefined, FALSE, 0)
  /\ errors = << >>
  /\ isRunning = FALSE
  /\ totalAttempts = 0
  /\ lastUpdateAttempts = 0
  /\ workers = << >>
  /\ progressInterval = 0
  /\ timers = {}
  /\ timerSeq = 0
  /\ events = << >>
  /\ ret = "none"
  /\ wpc = [w \in Workers |-> "none"]
  /\ wStopSent = [w \in Workers |-> FALSE]
  /\ wInbox = [w \in Workers |-> << >>]
  /\ wShouldStop = [w \in Workers |-> FALSE]
  /\ wAttempts = [w \in Workers |-> 0]
  /\ wSteps = [w \in Workers |-> 0]
  /\ wDrawn = [w \in Workers |-> 0]
  /\ out = [w \in Workers |-> << >>]
  /\ nextWorker = 0
  /\ nStarts = 0
  /\ nTicks = 0
  /\ nFaults = 0
  /\ recvSum = 0
  /\ foundDelivered = << >>
  /\ extStopped = FALSE

Init ==
  /\ Fresh
  /\ matchArgs = MatchArgs(<< >>, << >>, "start", FALSE, Undefined)
  /\ matchResult = "none"
  /\ workerResult = "none"

\* ------------------------------------------------------- coordinator actions
\* new VanityGenerator(cfg)
Construct(cfg) ==
  /\ constructed = "none"
  /\ config' = cfg
  /\ errors' = validateConfig(cfg)
  /\ constructed' = IF validateConfiguration(cfg) = "throw"
                      THEN "failed" ELSE "ok"
  /\ ret' = IF validateConfiguration(cfg) = "throw"
              THEN "ConfigurationError" ELSE "ok"
  /\ UNCHANGED <<isRunning, totalAttempts, lastUpdateAttempts, workers,
                 progressInterval, timers, timerSeq, events,
                 wpc, wStopSent, wInbox, wShouldStop, wAttempts, wSteps,
                 wDrawn, nextWorker, out, histVars, matchVars>>

\* generator.start() called by the owner of the coordinator
Start ==
  /\ constructed = "ok"
  /\ isRunning \/ nextWorker + config.numWorkers <= MaxWorkers
  /\ Commit(start(IF isRunning THEN Cur ELSE [Cur EXCEPT !.events = << >>]))
  /\ IF isRunning
       THEN UNCHANGED <<nStarts, recvSum, foundDelivered, extStopped>>
       ELSE /\ nStarts' = nStarts + 1
            /\ recvSum' = 0
            /\ foundDelivered' = << >>
            /\ extStopped' = FALSE
  /\ UNCHANGED <<matchVars, ctorVars, out, nTicks, nFaults>>

\* generator.stop() called by the owner of the coordinator
Stop ==
  /\ constructed = "ok"
  /\ Commit([stop(Cur) EXCEPT
               !.ret = IF isRunning THEN "stopped" ELSE "not running"])
  /\ extStopped' = (extStopped \/ isRunning)
  /\ UNCHANGED <<matchVars, ctorVars, out, nStarts, nTicks, nFaults, recvSum, foundDelivered>>

\* generator.getStats() called by the owner of the coordinator: it reads
\* totalAttempts and lastUpdateAttempts and assigns nothing
GetStats ==
  /\ constructed = "ok"
  /\ getStats(Cur).totalAttempts \in Nat
  /\ Commit([Cur EXCEPT !.ret = "stats"])
  /\ UNCHANGED <<matchVars, ctorVars, out, histVars>>

\* attempts carried by a Progress or Found message
MsgAttempts(m) ==
  CASE m.type = "progress" -> m.attempts
    [] m.type = "found" /\ m.data # Undefined -> m.data[1].attempts
    [] OTHER -> 0

\* worker.ts createWorker: worker.onmessage / worker.onerror runs with the
\* oldest undelivered event of worker w
Deliver(w) ==
  /\ out[w] # << >>
  /\ LET m == Head(out[w])
     IN  /\ Commit(IF m.type = "onerror"
                     THEN handleWorkerError(Cur, m.error)
                     ELSE handleWorkerMessage(Cur, m))
         /\ recvSum' = IF isRunning THEN recvSum + MsgAttempts(m) ELSE recvSum
         /\ foundDelivered' = IF m.type = "found"
                                THEN Append(foundDelivered, m.data[1])
                                ELSE foundDelivered
  /\ out' = [out EXCEPT ![w] = Tail(@)]
  /\ UNCHANGED <<matchVars, ctorVars, nStarts, nTicks, nFaults, extStopped>>

\* the reporting timer h fires
Tick(h) ==
  /\ h \in timers
  /\ nTicks < MaxTicks
  /\ Commit(progressTick(Cur))
  /\ nTicks' = nTicks + 1
  /\ UNCHANGED <<matchVars, ctorVars, out, nStarts, nFaults, recvSum, foundDelivered, extStopped>>

\* ------------------------------------------------------------ worker actions
coordVars == <<isRunning, totalAttempts, lastUpdateAttempts, workers,
               progressInterval, timers, timerSeq, events, ret, nextWorker>>

\* the worker's event loop hands the next message to self.onmessage; the
\* handler of a start message runs the search loop and does not return
\* before the loop has ended
WorkerReceive(w) ==
  /\ wpc[w] \in {"init", "idle"}
  /\ wInbox[w] # << >>
  /\ wInbox' = [wInbox EXCEPT ![w] = Tail(@)]
  /\ IF Head(wInbox[w]) = "start"
       THEN /\ wpc' = [wpc EXCEPT ![w] = "loop"]
            /\ UNCHANGED wShouldStop
       ELSE /\ wpc' = [wpc EXCEPT ![w] = "idle"]
            /\ wShouldStop' = [wShouldStop EXCEPT ![w] = TRUE]
  /\ UNCHANGED <<matchVars, ctorVars, coordVars, wStopSent, wAttempts, wSteps, wDrawn, out,
                 histVars>>

\* the script fails outside its try block (it cannot be loaded): the error
\* goes to worker.onerror
WorkerCrash(w) ==
  /\ wpc[w] = "init"
  /\ nFaults < MaxFaults
  /\ nFaults' = nFaults + 1
  /\ wpc' = [wpc EXCEPT ![w] = "crashed"]
  /\ out' = [out EXCEPT ![w] = Append(@, Msg("onerror", Undefined, 0,
                                              "Worker error: load"))]
  /\ UNCHANGED <<matchVars, ctorVars, coordVars, wStopSent, wInbox, wShouldStop, wAttempts,
                 wSteps, wDrawn, nStarts, nTicks, recvSum, foundDelivered,
                 extStopped>>

\* the counting of the loop that never resets the counter
countMisses_noReset(attempts, n) ==
  [progress |-> (attempts + n) % PROGRESS_INTERVAL = 0,
   attempts |-> attempts + n]

\* the end of the loop body, for n candidates in a row that did not match
\* and of which only the last can complete a batch: attempts++, and when
\* attempts % PROGRESS_INTERVAL is 0 a Progress message and attempts = 0
countMisses(attempts, n) ==
  IF (attempts + n) % PROGRESS_INTERVAL = 0
    THEN [progress |-> TRUE, attempts |-> 0]
    ELSE [progress |-> FALSE, attempts |-> attempts + n]

\* the search loop: the next candidate has address addr; when it does not
\* match, it stands for n consecutive candidates that do not match, none of
\* them past the next Progress message.  A worker executes at most limit
\* segments.  The private key of a candidate is the pair of the worker and
\* of the candidate's number among those the worker has drawn
LoopSegment(w, addr, n, limit) ==
  /\ wpc[w] = "loop"
  /\ wSteps[w] < limit
  /\ wSteps' = [wSteps EXCEPT ![w] = @ + 1]
  /\ IF wShouldStop[w]
       THEN /\ n = 1 /\ addr = AddrMiss
            /\ wpc' = [wpc EXCEPT ![w] = "idle"]
            /\ UNCHANGED <<wAttempts, wDrawn, out>>
       ELSE LET r == workerMatchesTarget(addr, config.target,
                                         config.searchMode,
                                         config.caseSensitive, config.position)
            IN  CASE r = "true" ->
                       /\ n = 1
                       /\ wDrawn' = [wDrawn EXCEPT ![w] = @ + 1]
                       /\ out' = [out EXCEPT ![w] = Append(@,
                             Msg("found",
                                 <<FoundData(addr, <<w, wDrawn[w] + 1>>,
                                             wAttempts[w] + 1)>>, 0, ""))]
                       /\ wpc' = [wpc EXCEPT ![w] = "idle"]
                       /\ UNCHANGED wAttempts
                  [] r = "false" ->
                       /\ wAttempts[w] + n <= PROGRESS_INTERVAL
                       /\ wDrawn' = [wDrawn EXCEPT ![w] = @ + n]
                       /\ wAttempts' = [wAttempts EXCEPT
                                          ![w] = countMisses(@, n).attempts]
                       /\ IF countMisses(wAttempts[w], n).progress
                            THEN out' = [out EXCEPT ![w] = Append(@,
                                       Msg("progress", Undefined,
                                           PROGRESS_INTERVAL, ""))]
                            ELSE UNCHANGED out
                       /\ UNCHANGED wpc
                  [] OTHER ->
                       /\ n = 1 /\ addr = AddrMiss
                       /\ wDrawn' = [wDrawn EXCEPT ![w] = @ + 1]
                       /\ out' = [out EXCEPT ![w] = Append(@,
                             Msg("error", Undefined, 0, "Unknown search mode"))]
                       /\ wpc' = [wpc EXCEPT ![w] = "idle"]
                       /\ UNCHANGED wAttempts
  /\ UNCHANGED <<matchVars, ctorVars, coordVars, wStopSent, wInbox, wShouldStop, histVars>>

\* a segment of the search loop of worker w
WorkerIterate(w, addr, n) == LoopSegment(w, addr, n, MaxSteps)

\* generatePrivateKey or privateKeyToAccount throws inside the loop
WorkerKeyFailure(w) ==
  /\ wpc[w] = "loop"
  /\ ~wShouldStop[w]
  /\ wSteps[w] < MaxSteps
  /\ nFaults < MaxFaults
  /\ nFaults' = nFaults + 1
  /\ wSteps' = [wSteps EXCEPT ![w] = @ + 1]
  /\ out' = [out EXCEPT ![w] = Append(@,
                Msg("error", Undefined, 0, "key generation failed"))]
  /\ wpc' = [wpc EXCEPT ![w] = "idle"]
  /\ UNCHANGED <<matchVars, ctorVars, coordVars, wStopSent, wInbox, wShouldStop, wAttempts,
                 wDrawn, nStarts, nTicks, recvSum, foundDelivered, extStopped>>

\* the events of a terminated worker that were not yet delivered are discarded
DropStale(w) ==
  /\ wpc[w] = "dead"
  /\ out[w] # << >>
  /\ out' = [out EXCEPT ![w] = << >>]
  /\ UNCHANGED <<matchVars, ctorVars, genVars, histVars>>

\* -------------------------------------------------------------------- Spec
Next ==
  \/ \E cfg \in RunConfigs : Construct(cfg)
  \/ Start
  \/ Stop
  \/ GetStats
  \/ \E w \in Workers : Deliver(w)
  \/ \E h \in timers : Tick(h)
  \/ \E w \in Workers : WorkerReceive(w)
  \/ \E w \in Workers : WorkerCrash(w)
  \/ \E w \in Workers : \E addr \in Addresses : \E n \in MissRuns :
       WorkerIterate(w, addr, n)
  \/ \E w \in Workers : WorkerKeyFailure(w)
  \/ \E w \in Workers : DropStale(w)

Spec == Init /\ [][Next]_vars

\* ------------------------------- one worker, searching until it has a match
SingleConfigs ==
  { Config(<<"a", "b">>, "start", Undefined, FALSE, 1),
    Config(<<"A", "b">>, "anywhere", Undefined, TRUE, 1) }

\* no stop() and no failures; every run is ended by its worker's find
NextSingle ==
  \/ \E cfg \in SingleConfigs : Construct(cfg)
  \/ Start /\ ~isRunning
  \/ GetStats
  \/ \E w \in Workers : Deliver(w)
  \/ \E h \in timers : Tick(h)
  \/ \E w \in Workers : WorkerReceive(w)
  \/ \E w \in Workers : \E addr \in Addresses : \E n \in MissRuns :
       LoopSegment(w, addr, n, SingleSteps)

SpecSingle == Init /\ [][NextSingle]_vars

\* ----------------------- one worker, stop() interleaved with the worker
\* The worker runs in a thread of its own: its loop goes on between the two
\* statements of terminateWorker.  The coordinator's callbacks do not run
\* before stop() has returned.
MidStop == ~isRunning /\ workers # << >>

\* stop() up to and including worker.postMessage(stop)
StopBegin ==
  /\ constructed = "ok"
  /\ isRunning
  /\ Len(workers) = 1
  /\ Commit([postStopMessage([Cur EXCEPT !.isRunning = FALSE], Head(workers))
               EXCEPT !.ret = "stopping"])
  /\ extStopped' = TRUE
  /\ UNCHANGED <<matchVars, ctorVars, out, nStarts, nTicks, nFaults, recvSum,
                 foundDelivered>>

\* the rest of stop(): worker.terminate(), workers = [], the timer, stopped
StopEnd ==
  /\ MidStop
  /\ LET s1 == terminate(Cur, Head(workers))
         s2 == [s1 EXCEPT !.workers = << >>]
         s3 == stopProgressUpdates(s2)
     IN  Commit([emit(s3, Ev("stopped", 0, << >>, << >>, ""))
                   EXCEPT !.ret = "stopped"])
  /\ UNCHANGED <<matchVars, ctorVars, out, histVars>>

NextCancel ==
  \/ \E cfg \in SingleConfigs : Construct(cfg)
  \/ Start /\ ~isRunning /\ ~MidStop
  \/ StopBegin
  \/ StopEnd
  \/ \E w \in Workers : Deliver(w) /\ ~MidStop
  \/ \E w \in Workers : WorkerReceive(w)
  \/ \E w \in Workers : \E addr \in Addresses : \E n \in MissRuns :
       LoopSegment(w, addr, n, SingleSteps)
  \/ \E w \in Workers : DropStale(w)

SpecCancel == Init /\ [][NextCancel]_vars

\* --------------------------- searches that only a find ends, fair delivery
LiveConfigs ==
  { Config(<<"a", "b">>, "start", Undefined, FALSE, 1),
    Config(<<"a", "b">>, "start", Undefined, FALSE, 2) }

\* no caller stops the search and no posted message is lost
NextLive ==
  \/ \E cfg \in LiveConfigs : Construct(cfg)
  \/ Start /\ ~isRunning
  \/ \E w \in Workers : Deliver(w)
  \/ \E h \in timers : Tick(h)
  \/ \E w \in Workers : WorkerReceive(w)
  \/ \E w \in Workers : \E addr \in Addresses : \E n \in MissRuns :
       WorkerIterate(w, addr, n)
  \/ \E w \in Workers : WorkerKeyFailure(w)

\* the event loop of the coordinator's thread runs the callback of every
\* message that was posted to it
SpecLive ==
  Init /\ [][NextLive]_vars /\ \A w \in Workers : WF_vars(Deliver(w))

\* ------------------------------------------- configurations, one at a time
TargetChars == {"a", "F", "9", "z", "G"}
TargetLengths == {0, 1, 2, 4, 39, 40, 41}
\* a target of one repeated character, or with one other character in it
Targets ==
  {Fill(c, n) : c \in TargetChars, n \in TargetLengths}
  \cup {[Fill(c, n) EXCEPT ![i] = d] :
          c \in {"a"}, d \in {"z", "F"}, n \in {2, 4}, i \in {1, 2}}
\* the four search modes and one that is none of them
Modes == {"anywhere", "start", "end", "position", "bogus"}
Positions == {Undefined} \cup {<<p>> : p \in {-1, 0, 1, 36, 37, 38, 39, 40, 41}}
WorkerCounts == {-1, 0, 1, 2}

AllConfigs ==
  {Config(t, m, p, cs, n) :
     t \in Targets, m \in Modes, p \in Positions,
     cs \in BOOLEAN, n \in WorkerCounts}

NextConfig == \E cfg \in AllConfigs : Construct(cfg)

SpecConfig == Init /\ [][NextConfig]_vars

\* ------------------------------------------------- the matcher on its own
\* an address whose body is all "0" except for t, which starts at index p
AddrWith(t, p) ==
  <<"0", "x">> \o [i \in 1..ADDRESS_LENGTH |->
                     IF i > p /\ i <= p + Len(t) THEN t[i - p] ELSE "0"]

MatchAddresses ==
  { AddrMiss, AddrHit,
    <<"0", "x">> \o Fill("F", ADDRESS_LENGTH),
    AddrWith(<<"A", "b">>, ADDRESS_LENGTH - 2),
    AddrWith(<<"a", "B">>, 1),
    AddrWith(<<"b", "3", "4">>, 37),
    AddrWith(<<"a", "b">>, 5) }

MatchTargets ==
  { <<"a">>, <<"f">>, <<"a", "b">>, <<"A", "b">>, <<"a", "B">>, <<"F", "f">>,
    <<"b", "3", "4">>, <<"0", "A", "b">>,
    Fill("f", ADDRESS_LENGTH), Fill("F", ADDRESS_LENGTH),
    Fill("f", ADDRESS_LENGTH + 1), Fill("0", ADDRESS_LENGTH - 2) }

MatchPositions ==
  {Undefined} \cup {<<p>> : p \in {0, 1, 2, 5, 37, 38, 39, 40, 41}}

InitMatch ==
  /\ Fresh
  /\ matchArgs \in { MatchArgs(a, t, m, cs, p) :
                        a \in MatchAddresses, t \in MatchTargets, m \in Modes,
                        cs \in BOOLEAN, p \in MatchPositions }
  /\ matchResult = "none"
  /\ workerResult = "none"

\* matchesTarget(address, target, mode, caseSensitive, position) is called,
\* and the script's copy of it with the same arguments
Match ==
  /\ matchResult = "none"
  /\ matchResult' = matchesTarget(matchArgs.address, matchArgs.target,
                                  matchArgs.mode, matchArgs.caseSensitive,
                                  matchArgs.position)
  /\ workerResult' = workerMatchesTarget(matchArgs.address, matchArgs.target,
                                         matchArgs.mode,
                                         matchArgs.caseSensitive,
                                         matchArgs.position)
  /\ UNCHANGED <<matchArgs, ctorVars, genVars, out, histVars>>

NextMatch == Match

SpecMatch == InitMatch /\ [][NextMatch]_vars

\* ------------------------------------------------------------------ claims
FoundEvents == SelectSeq(events, LAMBDA e : e.type = "found")
StoppedCount == Len(SelectSeq(events, LAMBDA e : e.type = "stopped"))

\* C1: in one run the coordinator emits found at most once; when Found
\* messages are delivered in a run that no caller's stop() ended, it emits
\* found exactly once, with the candidate of the first Found message handled
C1_AtMostOneWinner ==
  /\ Len(FoundEvents) <= 1
  /\ (foundDelivered # << >> /\ ~extStopped) =>
       /\ Len(FoundEvents) = 1
       /\ FoundEvents[1].address = foundDelivered[1].address
       /\ FoundEvents[1].privateKey = foundDelivered[1].privateKey

\* two workers' Found messages were handled in one run, one found was emitted
C1_Witness ==
  /\ Len(foundDelivered) >= 2
  /\ foundDelivered[1].privateKey[1] # foundDelivered[2].privateKey[1]
  /\ Len(FoundEvents) = 1

\* C2: getStats().totalAttempts is the sum of the attempt deltas of the
\* Progress and Found messages received while running since the last start()
C2_AttemptAccounting == getStats(Cur).totalAttempts = recvSum

\* a Progress and a Found message have both been counted
C2_Witness ==
  /\ recvSum > PROGRESS_INTERVAL
  /\ FoundEvents # << >>
  /\ getStats(Cur).totalAttempts = recvSum

\* C3: while the coordinator is not running, an event arriving from a worker
\* changes no coordinator state and makes it emit nothing
C3_LateEventsIgnored ==
  [][\A w \in Workers :
       (Deliver(w) /\ ~isRunning) =>
         UNCHANGED <<isRunning, totalAttempts, lastUpdateAttempts, workers,
                     progressInterval, events>>]_vars

\* C4: a Progress or Found message of a worker that an earlier stop has
\* terminated is not applied: it changes neither totalAttempts nor the
\* running flag and emits nothing
C4_StaleWorkersIgnored ==
  [][\A w \in Workers :
       (Deliver(w) /\ wpc[w] = "dead"
          /\ Head(out[w]).type \in {"progress", "found"}) =>
         UNCHANGED <<isRunning, totalAttempts, events>>]_vars

\* C5: stop() on a coordinator that is not running changes nothing and emits
\* nothing; stop() on a running one emits stopped once and ends the run, so
\* that a second stop() right after it is such a no-op
C5_StopIdempotent ==
  [][/\ Stop =>
          IF isRunning
            THEN /\ events' = Append(events, Ev("stopped", 0, << >>, << >>, ""))
                 /\ ~isRunning'
                 /\ ret' = "stopped"
            ELSE /\ ret' = "not running"
                 /\ UNCHANGED <<matchVars, ctorVars, isRunning, totalAttempts,
                                lastUpdateAttempts, workers, progressInterval,
                                timers, timerSeq, events, wpc, wStopSent,
                                wInbox, wShouldStop, wAttempts, wSteps,
                                wDrawn, nextWorker, out>>
     /\ StoppedCount' <= 1]_vars

\* stop() was called on a coordinator that an earlier stop had stopped
C5_Witness ==
  /\ ret = "not running"
  /\ extStopped
  /\ StoppedCount = 1

\* C6: start() while running fails with the already-running error and leaves
\* counters, workers, timers and events as they were
C6_StartWhileRunning ==
  [][(Start /\ isRunning) =>
       /\ ret' = "AlreadyRunning"
       /\ UNCHANGED <<matchVars, ctorVars, isRunning, totalAttempts, lastUpdateAttempts,
                      workers, progressInterval, timers, timerSeq, events,
                      wpc, wStopSent, wInbox, wShouldStop, wAttempts, wSteps,
                      wDrawn, nextWorker, out>>]_vars

\* start() has failed on a running coordinator that had counted attempts
C6_Witness ==
  /\ ret = "AlreadyRunning"
  /\ isRunning
  /\ totalAttempts > 0
  /\ Len(workers) = config.numWorkers

\* C7 as stated: found is emitted first and stopped right after it
C7_FoundThenStopped ==
  \A i \in 1..Len(events) :
    events[i].type = "found" =>
      i < Len(events) /\ events[i + 1].type = "stopped"

\* C7 amended: the internal stop() comes first; stopped is emitted right
\* before found, and the coordinator is torn down when found is emitted
C7_StoppedThenFound ==
  \A i \in 1..Len(events) :
    events[i].type = "found" =>
      /\ i > 1 /\ events[i - 1].type = "stopped"
      /\ ~isRunning /\ workers = << >>

\* a run has ended by a find
C7_Witness ==
  /\ FoundEvents # << >>
  /\ ~extStopped
  /\ events[Len(events)].type = "found"

\* C8: a worker's Error message, or its error callback, handled while
\* running adds one error event and changes nothing else of the coordinator
\* or of the workers: the coordinator is still running
C8_ErrorOnlyEmits ==
  [][\A w \in Workers :
       (Deliver(w) /\ isRunning
          /\ Head(out[w]).type \in {"error", "onerror"}) =>
         /\ Len(events') = Len(events) + 1
         /\ SubSeq(events', 1, Len(events)) = events
         /\ events'[Len(events')].type = "error"
         /\ isRunning'
         /\ UNCHANGED <<totalAttempts, lastUpdateAttempts, workers,
                        progressInterval, timers, timerSeq, wpc, wStopSent,
                        wInbox, wShouldStop, wAttempts, wSteps, wDrawn,
                        nextWorker>>]_vars

\* after an error event of a run, a Found message of that run was processed
C8_Witness ==
  \E i, j \in 1..Len(events) :
    /\ i < j
    /\ events[i].type = "error"
    /\ events[j].type = "stopped"
    /\ j < Len(events) /\ events[j + 1].type = "found"

\* C9: what the claim accepts
Acceptable(c) ==
  /\ Len(c.target) >= 1
  /\ Len(c.target) <= 40
  /\ \A i \in 1..Len(c.target) : c.target[i] \in HexChars
  /\ c.numWorkers >= 1
  /\ c.searchMode = "position" =>
       /\ c.position # Undefined
       /\ 0 <= c.position[1]
       /\ c.position[1] <= 40 - Len(c.target)

\* C9: validateConfig returns no errors, and the constructor succeeds,
\* exactly for the acceptable configurations
C9_ValidationIff ==
  constructed # "none" =>
    /\ (errors = << >>) <=> Acceptable(config)
    /\ (constructed = "ok") <=> Acceptable(config)

\* position 38 with a hex target of length 4 was rejected
C9_Witness ==
  /\ constructed = "failed"
  /\ config.searchMode = "position"
  /\ config.position = <<38>>
  /\ config.target = Fill("a", 4)
  /\ config.numWorkers = 1
  /\ Len(errors) = 1

\* C10: after a failed construction nothing was started, and workers exist
\* only under a configuration that validateConfig accepts
C10_NoHalfStart ==
  /\ constructed = "failed" =>
       /\ ~isRunning /\ workers = << >> /\ nextWorker = 0 /\ timers = {}
       /\ \A w \in Workers : wpc[w] = "none"
  /\ (nextWorker > 0 \/ isRunning) => validateConfig(config) = << >>

\* a rejected configuration: the constructor has failed
C10_Witness ==
  /\ constructed = "failed"
  /\ ret = "ConfigurationError"
  /\ validateConfig(config) # << >>

\* C11: start() on a coordinator that is not running succeeds and begins a
\* fresh run: it is running, both counters are 0, there are exactly
\* config.numWorkers workers, all new, each with the start message posted to
\* it, the reporting timer is active, and started is the first event of the
\* run and the only started event in it
C11_StartFreshRun ==
  [][/\ (Start /\ ~isRunning) =>
          /\ ret' = "ok"
          /\ isRunning'
          /\ totalAttempts' = 0
          /\ lastUpdateAttempts' = 0
          /\ Len(workers') = config.numWorkers
          /\ \A i \in 1..Len(workers') :
               /\ workers'[i] > nextWorker
               /\ wpc[workers'[i]] = "none"
               /\ wpc'[workers'[i]] = "init"
               /\ wInbox'[workers'[i]] = <<"start">>
               /\ \A j \in 1..Len(workers') :
                    workers'[i] = workers'[j] => i = j
          /\ progressInterval' # 0
          /\ progressInterval' \notin timers
          /\ timers' = {progressInterval'}
          /\ events' = <<Ev("started", 0, << >>, << >>, "")>>
     /\ nStarts' > 0 =>
          /\ events'[1].type = "started"
          /\ Len(SelectSeq(events', LAMBDA e : e.type = "started")) = 1]_vars

\* a second run has been started after the first one's worker was terminated
C11_Witness ==
  /\ nStarts = 2
  /\ ret = "ok"
  /\ isRunning
  /\ wpc[1] = "dead"
  /\ workers = <<2>>
  /\ wInbox[2] = <<"start">>
  /\ progressInterval \in timers
  /\ events = <<Ev("started", 0, << >>, << >>, "")>>

\* C12: getStats() changes nothing of the coordinator or of the workers; its
\* totalAttempts is 0 before the first start, is the found event's attempts
\* when a find ends the run, and stays what it was when the run ended for as
\* long as the coordinator is not running
C12_GetStatsReadOnly ==
  [][/\ GetStats =>
          /\ ret' = "stats"
          /\ UNCHANGED <<matchVars, ctorVars, isRunning, totalAttempts,
                         lastUpdateAttempts, workers, progressInterval,
                         timers, timerSeq, events, wpc, wStopSent, wInbox,
                         wShouldStop, wAttempts, wSteps, wDrawn, nextWorker,
                         out>>
     /\ nStarts' = 0 => getStats(Cur)'.totalAttempts = 0
     /\ (~isRunning /\ ~isRunning') =>
          getStats(Cur)'.totalAttempts = getStats(Cur).totalAttempts
     /\ (isRunning /\ ~isRunning' /\ FoundEvents' # << >>) =>
          /\ getStats(Cur)'.totalAttempts = FoundEvents'[1].attempts
          /\ getStats(Cur)'.totalAttempts = recvSum'
     /\ (isRunning /\ ~isRunning' /\ FoundEvents' = << >>) =>
          getStats(Cur)'.totalAttempts = getStats(Cur).totalAttempts]_vars

\* getStats() was called after a find that followed a Progress message and a
\* reporting tick
C12_Witness ==
  /\ ret = "stats"
  /\ ~isRunning
  /\ FoundEvents # << >>
  /\ lastUpdateAttempts > 0
  /\ getStats(Cur).totalAttempts = FoundEvents[1].attempts
  /\ getStats(Cur).totalAttempts > PROGRESS_INTERVAL

\* C13: totalAttempts changes only when start() zeroes it and when a
\* Progress or Found message is handled while running, which adds exactly
\* the message's attempts, a positive number; stop(), getStats(), the
\* reporting tick, the handling of errors and the workers' own steps leave
\* it as it is
C13_AttemptsMonotone ==
  [][/\ (Stop \/ GetStats \/ \E h \in timers : Tick(h)) =>
          totalAttempts' = totalAttempts
     /\ \A w \in Workers :
          Deliver(w) =>
            IF isRunning /\ Head(out[w]).type \in {"progress", "found"}
              THEN /\ totalAttempts' = totalAttempts + MsgAttempts(Head(out[w]))
                   /\ totalAttempts' > totalAttempts
              ELSE totalAttempts' = totalAttempts
     /\ (Start /\ ~isRunning) => totalAttempts' = 0
     /\ totalAttempts' # totalAttempts =>
          \/ Start /\ ~isRunning
          \/ \E w \in Workers :
               Deliver(w) /\ isRunning
                 /\ Head(out[w]).type \in {"progress", "found"}
     /\ totalAttempts' < totalAttempts => (Start /\ totalAttempts' = 0)]_vars

\* a run that has counted a Progress message, then reported on a tick,
\* handled an error and answered getStats(), and is still running
C13_Witness ==
  /\ isRunning
  /\ totalAttempts = PROGRESS_INTERVAL
  /\ lastUpdateAttempts = PROGRESS_INTERVAL
  /\ \E i \in 1..Len(events) : events[i].type = "error"
  /\ ret = "stats"

\* the Found messages that are posted and not yet delivered
FoundPosted(w) == SelectSeq(out[w], LAMBDA m : m.type = "found")

\* C14: one worker, its messages delivered in order: when the first
\* candidate that matches is the k-th one the worker draws, the found event
\* carries that candidate's address and private key, and attempts = k
C14_FoundCarriesKth ==
  /\ Len(workers) <= 1
  /\ \A i \in 1..Len(events) :
       events[i].type = "found" =>
         /\ Len(foundDelivered) = 1
         /\ \A w \in Workers : FoundPosted(w) = << >>
         /\ LET d == foundDelivered[1]
                k == d.privateKey[2]
            IN  /\ k >= 1
                /\ matchesTarget(d.address, config.target, config.searchMode,
                                 config.caseSensitive, config.position) = "true"
                /\ events[i].address = d.address
                /\ events[i].privateKey = d.privateKey
                /\ events[i].attempts = k

\* the first match was the candidate right after a full batch
C14_Witness ==
  /\ FoundEvents # << >>
  /\ FoundEvents[1].privateKey[2] = PROGRESS_INTERVAL + 1
  /\ FoundEvents[1].attempts = PROGRESS_INTERVAL + 1
  /\ FoundEvents[1].address = AddrHit

\* C15: a worker whose loop is running and to which the stop message has
\* been sent sees the request at its next loop step: that step leaves the
\* loop, draws no candidate and posts no message
C15_StopObserved ==
  [][\A w \in Workers :
       (wpc[w] = "loop" /\ wStopSent[w] /\ wSteps'[w] > wSteps[w]) =>
         /\ wShouldStop[w]
         /\ wpc'[w] = "idle"
         /\ wDrawn'[w] = wDrawn[w]
         /\ out'[w] = out[w]]_vars

\* the call of the matcher: its arguments, and the address without "0x"
Called == matchResult # "none"
T == matchArgs.target
Body == [i \in 1..(Len(matchArgs.address) - 2) |-> matchArgs.address[i + 2]]

\* a hexadecimal character in lower case
LowerHex(c) ==
  CASE c = "A" -> "a" [] c = "B" -> "b" [] c = "C" -> "c"
    [] c = "D" -> "d" [] c = "E" -> "e" [] c = "F" -> "f"
    [] OTHER -> c

\* character c of the address and character d of the target are equal under
\* the case rule
SameChar(c, d) ==
  IF matchArgs.caseSensitive THEN c = d ELSE LowerHex(c) = LowerHex(d)

\* the Len(T) characters of the body from index p on (0-based) are T
TargetAt(p) ==
  /\ p >= 0
  /\ p + Len(T) <= Len(Body)
  /\ \A i \in 1..Len(T) : SameChar(Body[p + i], T[i])

\* C16: mode start, not case-sensitive, hex target: the matcher returns true
\* exactly when the first Len(T) characters of the body, in lower case, are
\* T in lower case
C16_StartPrefix ==
  (Called /\ matchArgs.mode = "start" /\ ~matchArgs.caseSensitive
     /\ validateTarget(T)) =>
    /\ matchResult \in {"true", "false"}
    /\ (matchResult = "true") <=>
         /\ Len(T) <= Len(Body)
         /\ \A i \in 1..Len(T) : LowerHex(Body[i]) = LowerHex(T[i])

\* target aB matches the body Ab34... at its start
C16_Witness ==
  /\ matchArgs.mode = "start"
  /\ ~matchArgs.caseSensitive
  /\ matchArgs.address = AddrHit
  /\ T = <<"a", "B">>
  /\ matchResult = "true"

\* C17: mode end, hex target: the matcher returns true exactly when the
\* last Len(T) characters of the body are T, both in lower case when the
\* search is not case-sensitive
C17_EndSuffix ==
  (Called /\ matchArgs.mode = "end" /\ validateTarget(T)) =>
    /\ matchResult \in {"true", "false"}
    /\ (matchResult = "true") <=> TargetAt(Len(Body) - Len(T))

\* the body ends with Ab and a case-sensitive search for Ab has matched
C17_Witness ==
  /\ matchArgs.mode = "end"
  /\ matchArgs.caseSensitive
  /\ matchArgs.address = AddrWith(<<"A", "b">>, ADDRESS_LENGTH - 2)
  /\ T = <<"A", "b">>
  /\ matchResult = "true"

\* C18: mode position, hex target, position p >= 0: the matcher returns
\* true exactly when the Len(T) characters of the body from index p on are T
\* under the case rule; it returns false when p + Len(T) is larger than the
\* length of the body, and when the position is undefined
C18_PositionWindow ==
  (Called /\ matchArgs.mode = "position" /\ validateTarget(T)) =>
    /\ matchResult \in {"true", "false"}
    /\ IF matchArgs.position = Undefined
         THEN matchResult = "false"
         ELSE LET p == matchArgs.position[1]
              IN  /\ (matchResult = "true") <=> TargetAt(p)
                  /\ p + Len(T) > Len(Body) => matchResult = "false"

\* b34 at index 37 of the body, the last position a target of length 3 has
C18_Witness ==
  /\ matchArgs.mode = "position"
  /\ matchArgs.position = <<37>>
  /\ matchArgs.address = AddrWith(<<"b", "3", "4">>, 37)
  /\ T = <<"b", "3", "4">>
  /\ matchResult = "true"

\* C19: mode anywhere, hex target: the matcher returns true exactly when T
\* is a contiguous part of the body, both in lower case when the search is
\* not case-sensitive and both as they are when it is
C19_AnywhereSubstring ==
  (Called /\ matchArgs.mode = "anywhere" /\ validateTarget(T)) =>
    /\ matchResult \in {"true", "false"}
    /\ (matchResult = "true") <=>
         \E p \in 0..(Len(Body) - Len(T)) : TargetAt(p)

\* ab is found at index 5 of the body in a case-sensitive search
C19_Witness ==
  /\ matchArgs.mode = "anywhere"
  /\ matchArgs.caseSensitive
  /\ matchArgs.address = AddrWith(<<"a", "b">>, 5)
  /\ T = <<"a", "b">>
  /\ matchResult = "true"

\* C20: when the candidate a worker draws matches, the worker posts one
\* Found message with the candidate's address and private key and with
\* attempts = (candidates that did not match since its last Progress
\* message) + 1, and leaves the loop; a worker that has left its loop never
\* enters it again, draws no candidate and posts no message
C20_FoundOnceThenIdle ==
  [][\A w \in Workers :
       /\ \A addr \in Addresses :
            (/\ LoopSegment(w, addr, 1, SingleSteps)
             /\ ~wShouldStop[w]
             /\ matchesTarget(addr, config.target, config.searchMode,
                              config.caseSensitive, config.position) = "true")
            =>
            /\ out'[w] = Append(out[w],
                 [type |-> "found",
                  data |-> <<[address |-> addr,
                              privateKey |-> <<w, wDrawn[w] + 1>>,
                              attempts |-> (wDrawn[w] % PROGRESS_INTERVAL) + 1]>>,
                  attempts |-> 0, error |-> ""])
            /\ wpc'[w] = "idle"
       /\ wpc[w] \in {"idle", "dead"} =>
            /\ wpc'[w] \in {"idle", "dead"}
            /\ Len(out'[w]) <= Len(out[w])
            /\ wDrawn'[w] <= wDrawn[w]]_vars

\* a worker has posted Found for the candidate right after a full batch, has
\* left its loop and has then taken the stop message
C20_Witness ==
  \E w \in Workers :
    /\ wpc[w] = "idle"
    /\ wShouldStop[w]
    /\ Len(FoundPosted(w)) = 1
    /\ FoundPosted(w)[1].data[1].attempts = 1
    /\ FoundPosted(w)[1].data[1].privateKey = <<w, PROGRESS_INTERVAL + 1>>
    /\ out[w][Len(out[w])].type = "found"

\* the messages worker w posts in a step
Posted(w) == SubSeq(out'[w], Len(out[w]) + 1, Len(out'[w]))

\* C21: a worker posts Progress exactly when the candidates that did not
\* match since its last Progress message are PROGRESS_INTERVAL many; the
\* message carries PROGRESS_INTERVAL and the counter is 0 after it.  Between
\* two iterations the counter is in 0..PROGRESS_INTERVAL-1, and a Found
\* message carries attempts in 1..PROGRESS_INTERVAL
C21_Batching ==
  [][\A w \in Workers :
       /\ wAttempts'[w] \in 0..(PROGRESS_INTERVAL - 1)
       /\ \A i \in 1..Len(out'[w]) :
            /\ out'[w][i].type = "progress" =>
                 out'[w][i].attempts = PROGRESS_INTERVAL
            /\ out'[w][i].type = "found" =>
                 out'[w][i].data[1].attempts \in 1..PROGRESS_INTERVAL
       /\ (wpc[w] = "loop" /\ wpc'[w] = "loop" /\ wDrawn'[w] > wDrawn[w]) =>
            LET since == (wDrawn[w] % PROGRESS_INTERVAL)
                           + (wDrawn'[w] - wDrawn[w])
            IN  IF since = PROGRESS_INTERVAL
                  THEN /\ Len(Posted(w)) = 1
                       /\ Posted(w)[1].type = "progress"
                       /\ wAttempts'[w] = 0
                  ELSE /\ Posted(w) = << >>
                       /\ wAttempts'[w] = since]_vars

\* a worker has completed a batch, has posted Progress and goes on searching
C21_Witness ==
  \E w \in Workers :
    /\ wpc[w] = "loop"
    /\ wDrawn[w] = PROGRESS_INTERVAL
    /\ wAttempts[w] = 0
    /\ out[w] = <<Msg("progress", Undefined, PROGRESS_INTERVAL, "")>>

\* C22: when key generation fails, or the matcher fails because the search
\* mode is none of the four, the worker posts one Error message with the
\* failure's message and leaves its loop; a worker that has left its loop
\* posts nothing more and does not enter the loop again
C22_WorkerFailure ==
  [][\A w \in Workers :
       /\ WorkerKeyFailure(w) =>
            /\ Posted(w) = <<[type |-> "error", data |-> Undefined,
                              attempts |-> 0,
                              error |-> "key generation failed"]>>
            /\ wpc'[w] = "idle"
       /\ (/\ \E addr \in Addresses : \E n \in MissRuns :
                 LoopSegment(w, addr, n, MaxSteps)
           /\ ~wShouldStop[w]
           /\ config.searchMode \notin {"anywhere", "start", "end", "position"})
          =>
            /\ Posted(w) = <<[type |-> "error", data |-> Undefined,
                              attempts |-> 0,
                              error |-> "Unknown search mode"]>>
            /\ wpc'[w] = "idle"
       /\ (wpc[w] = "idle" /\ out[w] # << >>
             /\ out[w][Len(out[w])].type = "error") =>
            /\ wpc'[w] # "loop"
            /\ Len(out'[w]) <= Len(out[w])
            /\ \A i \in 1..Len(out'[w]) :
                 out'[w][i] = out[w][i + Len(out[w]) - Len(out'[w])]]_vars

\* the worker of a search with an unknown mode has posted its Error message
\* and has left its loop, and the coordinator is still running
C22_Witness ==
  \E w \in Workers :
    /\ config.searchMode = "bogus"
    /\ isRunning
    /\ wpc[w] = "idle"
    /\ wDrawn[w] = 1
    /\ out[w] = <<Msg("error", Undefined, 0, "Unknown search mode")>>

\* C23: a progress event is emitted only by a reporting tick of a running
\* coordinator, which stays running, and it carries totalAttempts as it is
\* at that tick; in the events of a run, progress comes after started and
\* never after stopped or found
C23_ProgressWhileRunning ==
  [][/\ (\E h \in timers : Tick(h)) =>
          /\ isRunning /\ isRunning'
          /\ events' = Append(events,
                              Ev("progress", totalAttempts, << >>, << >>, ""))
          /\ totalAttempts' = totalAttempts
     /\ (Len(events') = Len(events) + 1
          /\ events'[Len(events')].type = "progress") =>
          /\ isRunning /\ isRunning'
          /\ progressInterval \in timers
          /\ events'[Len(events')].attempts = totalAttempts'
     /\ ~isRunning' => progressInterval' = 0 /\ timers' = {}
     /\ \A j \in 1..Len(events') :
          events'[j].type = "progress" =>
            /\ events'[1].type = "started"
            /\ \A i \in 1..(j - 1) :
                 events'[i].type \notin {"stopped", "found"}]_vars

\* a run has reported the attempts of a full batch on a tick and has then
\* ended by a find
C23_Witness ==
  /\ ~isRunning
  /\ timers = {}
  /\ Len(events) = 4
  /\ events[2] = Ev("progress", PROGRESS_INTERVAL, << >>, << >>, "")
  /\ events[3].type = "stopped"
  /\ events[4].type = "found"

\* C24: the stop logic runs once per run.  A run that has ended has emitted
\* stopped once and a running one has not; workers are terminated only in
\* the step that ends the run, all of them, with one stopped event; and once
\* a Found message was accepted in a run, a further Found message, or a
\* stop(), changes neither totalAttempts nor the events nor the workers
C24_StopOnce ==
  [][/\ StoppedCount' = (IF isRunning' \/ nStarts' = 0 THEN 0 ELSE 1)
     /\ (\E w \in Workers : wpc[w] # "dead" /\ wpc'[w] = "dead") =>
          /\ isRunning /\ ~isRunning'
          /\ \A i \in 1..Len(workers) :
               /\ wpc[workers[i]] # "dead"
               /\ wpc'[workers[i]] = "dead"
               /\ ~wStopSent[workers[i]] /\ wStopSent'[workers[i]]
          /\ workers' = << >>
          /\ StoppedCount' = StoppedCount + 1
     /\ \A w \in Workers :
          (Deliver(w) /\ Head(out[w]).type = "found"
             /\ FoundEvents # << >>) =>
            UNCHANGED <<isRunning, totalAttempts, events, workers, wpc,
                        wStopSent, timers>>
     /\ (Stop /\ FoundEvents # << >>) =>
          UNCHANGED <<isRunning, totalAttempts, events, workers, wpc,
                      wStopSent, timers>>]_vars

\* two workers' Found messages were handled in one run and stop() was
\* called after them: one stopped event, one found event
C24_Witness ==
  /\ Len(foundDelivered) = 2
  /\ ret = "not running"
  /\ StoppedCount = 1
  /\ Len(FoundEvents) = 1
  /\ totalAttempts = foundDelivered[1].attempts

\* the handles in VanityGenerator.workers
Held == {workers[i] : i \in 1..Len(workers)}

\* C25: the coordinator holds config.numWorkers handles, all different and
\* of workers that were not terminated, when it is running, and none when
\* it is not; every worker created and no longer held was sent the stop
\* message and was terminated
C25_WorkerSet ==
  /\ Len(workers) = (IF isRunning THEN config.numWorkers ELSE 0)
  /\ Cardinality(Held) = Len(workers)
  /\ \A w \in Workers :
       /\ w \in Held => w <= nextWorker /\ wpc[w] \notin {"none", "dead"}
                           /\ ~wStopSent[w]
       /\ (w <= nextWorker /\ w \notin Held) =>
            wStopSent[w] /\ wpc[w] = "dead"
       /\ w > nextWorker => wpc[w] = "none" /\ ~wStopSent[w]

\* a run with two workers has ended by a find: both were sent stop and
\* terminated and no handle is held
C25_Witness ==
  /\ ~isRunning
  /\ config.numWorkers = 2
  /\ nextWorker = 2
  /\ workers = << >>
  /\ FoundEvents # << >>
  /\ \A w \in {1, 2} : wStopSent[w] /\ wpc[w] = "dead"

\* C26: when a worker of a running coordinator has posted a Found message,
\* no caller stops the search and messages are delivered, then eventually
\* found is emitted, the coordinator is not running, it holds no worker and
\* every worker created is terminated
C26_FindLeadsToTeardown ==
  \A w \in Workers :
    (isRunning /\ w \in Held /\ FoundPosted(w) # << >>)
      ~> (/\ ~isRunning
          /\ FoundEvents # << >>
          /\ workers = << >>
          /\ timers = {}
          /\ \A v \in Workers : v <= nextWorker => wpc[v] = "dead")

\* the second worker's Found message has ended a search with two workers,
\* before the first worker's Progress message was delivered
C26_Witness ==
  /\ ~isRunning
  /\ config.numWorkers = 2
  /\ Len(foundDelivered) = 1
  /\ foundDelivered[1].privateKey[1] = 2
  /\ FoundEvents # << >>
  /\ FoundEvents[1].privateKey[1] = 2
  /\ out[1] # << >>
  /\ wpc[1] = "dead" /\ wpc[2] = "dead"

\* C27: for the same arguments the copy of the matcher in the worker script
\* returns what matchesTarget returns: true, false, or the unknown-mode
\* error
C27_MatcherCopies ==
  Called =>
    /\ workerResult \in {"true", "false", "throw"}
    /\ workerResult = matchResult
    /\ (workerResult = "throw") <=>
         matchArgs.mode \notin {"anywhere", "start", "end", "position"}

\* both fail for a mode that is none of the four, whatever the address
C27_Witness ==
  /\ matchArgs.mode = "bogus"
  /\ matchArgs.position = Undefined
  /\ ~matchArgs.caseSensitive
  /\ matchArgs.address = AddrHit
  /\ T = <<"a", "B">>
  /\ matchResult = "throw"
  /\ workerResult = "throw"

\* C28: lastUpdateAttempts is never larger than totalAttempts, so the
\* attempts of the current interval in a snapshot are never negative
C28_IntervalNonNegative ==
  /\ 0 <= lastUpdateAttempts
  /\ lastUpdateAttempts <= totalAttempts
  /\ getStats(Cur).intervalAttempts >= 0

\* a running search has counted a second batch after the tick that reported
\* the first one
C28_Witness ==
  /\ isRunning
  /\ lastUpdateAttempts = PROGRESS_INTERVAL
  /\ totalAttempts = 2 * PROGRESS_INTERVAL
  /\ nTicks >= 1

\* C29: found is emitted last in the handling of a Found message, so what
\* its listeners see is the state after that step: isGenerating() is false,
\* no worker is held and every worker is terminated, the reporting timer is
\* cancelled, and the event's attempts is getStats().totalAttempts
C29_TornDownAtFound ==
  [][(Len(events') > Len(events)
        /\ events'[Len(events')].type = "found") =>
       /\ \E w \in Workers :
            Deliver(w) /\ isRunning /\ Head(out[w]).type = "found"
       /\ ~isGenerating(Cur)'
       /\ workers' = << >>
       /\ \A w \in Workers : w <= nextWorker' => wpc'[w] = "dead"
       /\ progressInterval' = 0
       /\ timers' = {}
       /\ events'[Len(events')].attempts = getStats(Cur)'.totalAttempts]_vars

\* found was emitted for a search with two workers after a tick had reported
\* a batch; nothing has happened since
C29_Witness ==
  /\ events # << >>
  /\ events[Len(events)].type = "found"
  /\ events[Len(events)].attempts = getStats(Cur).totalAttempts
  /\ lastUpdateAttempts = PROGRESS_INTERVAL
  /\ config.numWorkers = 2
  /\ ~isGenerating(Cur)
  /\ timers = {}

====
